---- MODULE Spec2Model ----
(***************************************************************************)
(* Audio-Processing-Pipeline: scripts/pipeline.py as a state machine.      *)
(*                                                                         *)
(* A run of main() is: transcribe (the recognizer's Words as they arrive,  *)
(* then the sort), words_to_sentences (one loop iteration per step, then   *)
(* the final flush), load_audio, export_clips (one clip per step),         *)
(* write_json, maybe_write_srt.  An exception raised by a collaborator     *)
(* (recognizer, audio codec, file system) ends the run: pc = "failed".     *)
(*                                                                         *)
(* Representation.  A string is a sequence of characters; a character is a *)
(* one-element token ("a", " ", ".", ...).  The non-ASCII characters of    *)
(* the source are named by code point: "u3002" is the ideographic full     *)
(* stop, "uFF01"/"uFF1F" the fullwidth ! and ?, "u2026" the ellipsis.      *)
(* A time is an integer number of ticks, TicksPerMs ticks to a             *)
(* millisecond, so a time need not be a whole millisecond; the arithmetic  *)
(* on times is exact (the source's is binary floating point).              *)
(***************************************************************************)
EXTENDS Integers, Sequences, FiniteSets, TLC

VARIABLES
    pc,               \* position of main(): which step runs next
    words,            \* the Word list of transcribe(): as emitted, then sorted
    arrival,          \* history: whether the recognizer emitted the Words in order
    export_srt,       \* the export argument maybe_write_srt was called with
    gap_threshold,    \* argument of words_to_sentences, ticks
    max_chars,        \* argument of words_to_sentences
    i,                \* number of Words the loop of words_to_sentences has consumed
    acc,              \* the accumulator of words_to_sentences
    closed,           \* history: the accumulators closed so far, in order
    sentences,        \* the Sentence list built by words_to_sentences
    n,                \* ordinal of the last clip export_clips has finished
    artifacts,        \* the clip files written, in order of completion
    items,            \* the manifest list export_clips builds ("results")
    manifest_writes,  \* the documents written to segments.json, in order
    srt_writes,       \* the contents written to segments.srt, in order
    cwd,              \* viewer/app.py: the working directory the server runs in
    reqs,             \* viewer/app.py: the /upload requests and how far each has got
    issued,           \* the session ids uuid4() has returned
    up_disk,          \* the files of each session upload directory
    out_disk,         \* the segments.json of each session output directory
    last_status       \* the last answer of GET /status/<session_id>

server_vars == <<cwd, reqs, issued, up_disk, out_disk, last_status>>

vars == <<pc, words, arrival, export_srt, gap_threshold, max_chars, i, acc, closed, sentences,
          n, artifacts, items, manifest_writes, srt_writes, server_vars>>

-----------------------------------------------------------------------------
(* Bounds of the model *)

MaxWords == 3        \* longest Word list the recognizer emits
MaxTime == 1         \* latest Word timestamp, ticks
GapThreshold == 1    \* the gap_threshold of the run, ticks
MaxChars == 3        \* largest max_chars
TicksPerMs == 3      \* resolution of a timestamp: ticks per millisecond
BigExport == 1000    \* size of the long Sentence list of SpecExport

MaxRequests == 2     \* number of /upload requests the server receives

-----------------------------------------------------------------------------
(* viewer/app.py: requests, sessions and directories *)

Requests == 1..MaxRequests

\* the values uuid4() can return
SessionIds == 1..MaxRequests

\* the directories a relative path can resolve to: the project root (the
\* parent of viewer/) when the server runs there, else another directory
Bases == {"root", "viewer"}

\* a session directory <base>/<folder>/<session_id>, named by base and id
SessionDirs == Bases \X SessionIds

\* the uploaded recordings and the one name secure_filename gives them
Audios == {"x", "y"}
FileName == "a.mp3"

NoDir == <<"none", 0>>

\* a request that has not been handled yet
NewRequest ==
    [pc |-> "new", audio |-> "none", sid |-> 0,
     cmd |-> [audio_dir |-> NoDir, audio_name |-> "none", out_dir |-> NoDir],
     response |-> [session_id |-> 0, segments |-> {}]]

NoStatus ==
    [session_id |-> 0, status |-> "none", segments |-> {},
     uploaded |-> FALSE, manifest |-> {}]

-----------------------------------------------------------------------------
(* Characters and strings *)

SENTENCE_END_CHARS == {".", "!", "?", "u3002", "uFF01", "uFF1F", "u2026"}

\* the character class of the second substitution of normalize_spacing
CjkPunct == {"u3002", "uFF01", "uFF1F", "u2026"}

\* the characters \s matches and str.strip() removes
Whitespace == {" ", "\t", "\n"}

\* the Word texts the recognizer emits in the model
Texts == {<<"a">>, <<" ">>, <<".">>, <<" ", "u3002">>}

RECURSIVE Concat(_)
\* "".join(x["text"] for x in ws)
Concat(ws) ==
    IF ws = <<>> THEN <<>> ELSE ws[1].text \o Concat(Tail(ws))

RECURSIVE CollapseSpaces(_)
\* re.sub(r"\s+", " ", s): every maximal run of whitespace becomes one space
CollapseSpaces(s) ==
    IF s = <<>> THEN <<>>
    ELSE IF s[1] \in Whitespace
         THEN IF Len(s) > 1 /\ s[2] \in Whitespace
              THEN CollapseSpaces(Tail(s))
              ELSE <<" ">> \o CollapseSpaces(Tail(s))
         ELSE <<s[1]>> \o CollapseSpaces(Tail(s))

RECURSIVE LStrip(_)
LStrip(s) ==
    IF s # <<>> /\ s[1] \in Whitespace THEN LStrip(Tail(s)) ELSE s

RECURSIVE RStrip(_)
RStrip(s) ==
    IF s # <<>> /\ s[Len(s)] \in Whitespace
    THEN RStrip(SubSeq(s, 1, Len(s) - 1)) ELSE s

\* str.strip()
Strip(s) == RStrip(LStrip(s))

RECURSIVE DropSpaceBeforeCjk(_)
\* re.sub(r"\s+([...])", r"\1", s): a run of whitespace directly before one
\* of the four characters of CjkPunct is removed
DropSpaceBeforeCjk(s) ==
    IF s = <<>> THEN <<>>
    ELSE IF s[1] \in Whitespace
         THEN LET rest == LStrip(s)
                  run  == SubSeq(s, 1, Len(s) - Len(rest))
              IN  IF rest # <<>> /\ rest[1] \in CjkPunct
                  THEN DropSpaceBeforeCjk(rest)
                  ELSE run \o DropSpaceBeforeCjk(rest)
         ELSE <<s[1]>> \o DropSpaceBeforeCjk(Tail(s))

normalize_spacing(s) == DropSpaceBeforeCjk(Strip(CollapseSpaces(s)))

-----------------------------------------------------------------------------
(* transcribe: the Words of the recognizer, sorted *)

Intervals == {iv \in (0..MaxTime) \X (0..MaxTime) : iv[1] <= iv[2]}

\* a Word as transcribe builds it; start <= end
Words == {[text |-> t, start |-> iv[1], end |-> iv[2]] : t \in Texts, iv \in Intervals}

RECURSIVE SeqsUpTo(_, _)
SeqsUpTo(S, len) ==
    IF len = 0 THEN {<<>>}
    ELSE LET shorter == SeqsUpTo(S, len - 1)
         IN  shorter \cup {Append(q, x) : q \in {p \in shorter : Len(p) = len - 1}, x \in S}

\* the key of words.sort: (w["start"], w["end"]), compared as a tuple
KeyLess(a, b) == a.start < b.start \/ (a.start = b.start /\ a.end < b.end)

RECURSIVE Insert(_, _)
\* w goes behind every Word whose key is not greater: the sort is stable
Insert(sorted, w) ==
    IF sorted = <<>> THEN <<w>>
    ELSE IF KeyLess(w, sorted[1]) THEN <<w>> \o sorted
         ELSE <<sorted[1]>> \o Insert(Tail(sorted), w)

RECURSIVE StableSort(_)
StableSort(ws) ==
    IF ws = <<>> THEN <<>>
    ELSE Insert(StableSort(SubSeq(ws, 1, Len(ws) - 1)), ws[Len(ws)])

\* mutant: the list is returned as the recognizer emitted it
SortWordsSkipped(ws) == ws

\* words.sort(key=lambda w: (w["start"], w["end"]))
SortWords(ws) == StableSort(ws)

\* the Words are already in ascending key order
InOrder(ws) == \A j \in 1..(Len(ws) - 1) : ~KeyLess(ws[j + 1], ws[j])

\* viewer/app.py before the first request: empty upload and output folders
ServerIdle ==
    /\ cwd = "root"
    /\ reqs = [r \in Requests |-> NewRequest]
    /\ issued = {}
    /\ up_disk = [d \in SessionDirs |-> {}]
    /\ out_disk = [d \in SessionDirs |-> {}]
    /\ last_status = NoStatus

\* main() before its first step
PipelineStart ==
    /\ pc = "transcribe"
    /\ arrival = "none"
    /\ export_srt = FALSE
    /\ words = <<>>
    /\ gap_threshold = GapThreshold
    /\ max_chars = 1
    /\ i = 0
    /\ acc = <<>>
    /\ closed = <<>>
    /\ sentences = <<>>
    /\ n = 0
    /\ artifacts = <<>>
    /\ items = <<>>
    /\ manifest_writes = <<>>
    /\ srt_writes = <<>>

Init == PipelineStart /\ ServerIdle

\* transcribe, lines 32-59: the Words the recognizer emits, in their arrival
\* order; with them the arguments main() passes to the Segmenter
Recognize ==
    /\ pc = "transcribe"
    /\ \E ws \in SeqsUpTo(Words, MaxWords), m \in 1..MaxChars :
          /\ words' = ws
          /\ arrival' = IF InOrder(ws) THEN "in order" ELSE "out of order"
          /\ max_chars' = m
    /\ gap_threshold' = GapThreshold
    /\ pc' = "sort"
    /\ UNCHANGED <<export_srt, i, acc, closed, sentences, n, artifacts, items,
                   manifest_writes, srt_writes>>
    /\ UNCHANGED server_vars

\* transcribe, lines 61-63: the list is sorted in place and returned
SortStep ==
    /\ pc = "sort"
    /\ words' = SortWords(words)
    /\ pc' = "segment"
    /\ UNCHANGED <<arrival, export_srt, gap_threshold, max_chars, i, acc, closed, sentences,
                   n, artifacts, items, manifest_writes, srt_writes>>
    /\ UNCHANGED server_vars

\* the recognizer raises: the run ends before any processing
TranscribeFail ==
    /\ pc = "transcribe"
    /\ pc' = "failed"
    /\ UNCHANGED <<words, arrival, export_srt, gap_threshold, max_chars, i, acc, closed,
                   sentences, n, artifacts, items, manifest_writes, srt_writes>>
    /\ UNCHANGED server_vars

-----------------------------------------------------------------------------
(* words_to_sentences *)

NoWord == [text |-> <<>>, start |-> -1, end |-> -1]

\* mutant: the punctuation test is missing
should_close_gap_only(accum_text, current_word, next_word, threshold) ==
    IF next_word # NoWord
    THEN next_word.start - current_word.end >= threshold
    ELSE FALSE

\* mutant: the gap has to exceed the threshold
should_close_strict_gap(accum_text, current_word, next_word, threshold) ==
    IF accum_text # <<>> /\ accum_text[Len(accum_text)] \in SENTENCE_END_CHARS
    THEN TRUE
    ELSE IF next_word # NoWord
         THEN next_word.start - current_word.end > threshold
         ELSE FALSE

should_close_sentence(accum_text, current_word, next_word, threshold) ==
    IF accum_text # <<>> /\ accum_text[Len(accum_text)] \in SENTENCE_END_CHARS
    THEN TRUE
    ELSE IF next_word # NoWord
         THEN next_word.start - current_word.end >= threshold
         ELSE FALSE

\* mutant: the length guard waits until the text is longer than the limit
NeedCloseOverLimit(accum_text, w, next_w, threshold, limit) ==
    IF should_close_sentence(accum_text, w, next_w, threshold)
    THEN TRUE
    ELSE Len(accum_text) > limit

\* need_close of one loop iteration
NeedClose(accum_text, w, next_w, threshold, limit) ==
    IF should_close_sentence(accum_text, w, next_w, threshold)
    THEN TRUE
    ELSE Len(accum_text) >= limit

\* mutant: the Sentence ends where its first Word ends
MakeSentenceFirstEnd(a) ==
    [text |-> normalize_spacing(Concat(a)),
     start_time |-> a[1].start,
     end_time |-> a[1].end]

\* the Sentence of an accumulator
MakeSentence(a) ==
    [text |-> normalize_spacing(Concat(a)),
     start_time |-> a[1].start,
     end_time |-> a[Len(a)].end]

\* mutant: the Sentence is appended whatever its text
EmitAlways(sents, a) == Append(sents, MakeSentence(a))

\* "if text.strip(): sentences.append(...)"
Emit(sents, a) ==
    IF Strip(normalize_spacing(Concat(a))) # <<>>
    THEN Append(sents, MakeSentence(a))
    ELSE sents

\* mutant: the accumulator is not reset on closure
NextAccKept(a, close) == a

\* the accumulator after an iteration: "acc = []" on closure
NextAcc(a, close) == IF close THEN <<>> ELSE a

\* "if not words: return sentences"
SegmentEmpty ==
    /\ pc = "segment"
    /\ words = <<>>
    /\ pc' = "load"
    /\ UNCHANGED <<words, arrival, export_srt, gap_threshold, max_chars, i, acc, closed,
                   sentences, n, artifacts, items, manifest_writes, srt_writes>>
    /\ UNCHANGED server_vars

\* one iteration of "for i, w in enumerate(words)"
SegmentStep ==
    /\ pc = "segment"
    /\ i < Len(words)
    /\ LET w == words[i + 1]
           next_w == IF i + 2 <= Len(words) THEN words[i + 2] ELSE NoWord
           a == Append(acc, w)
           accum_text == Concat(a)
           need_close == NeedClose(accum_text, w, next_w, gap_threshold, max_chars)
       IN  /\ acc' = NextAcc(a, need_close)
           /\ IF need_close
              THEN /\ sentences' = Emit(sentences, a)
                   /\ closed' = Append(closed, a)
              ELSE UNCHANGED <<sentences, closed>>
    /\ i' = i + 1
    /\ UNCHANGED <<pc, words, arrival, export_srt, gap_threshold, max_chars, n, artifacts,
                   items, manifest_writes, srt_writes>>
    /\ UNCHANGED server_vars

\* "Flush last" and the return
Flush ==
    /\ pc = "segment"
    /\ words # <<>>
    /\ i = Len(words)
    /\ IF acc # <<>>
       THEN /\ sentences' = Emit(sentences, acc)
            /\ closed' = Append(closed, acc)
       ELSE UNCHANGED <<sentences, closed>>
    /\ pc' = "load"
    /\ UNCHANGED <<words, arrival, export_srt, gap_threshold, max_chars, i, acc, n, artifacts,
                   items, manifest_writes, srt_writes>>
    /\ UNCHANGED server_vars

-----------------------------------------------------------------------------
(* load_audio and export_clips *)

Max(a, b) == IF a >= b THEN a ELSE b

\* int(t * 1000): the milliseconds of a time, truncated towards zero.  (In
\* the source the product is a float and can fall just below a whole
\* millisecond, 2.01 * 1000 = 2009.9999999999998, which int() truncates too.)
IntMs(t) ==
    IF t >= 0 THEN t \div TicksPerMs ELSE -((-t) \div TicksPerMs)

\* round(t * 1000), and the milliseconds of round(t, 3): to the nearest
\* millisecond, a tie to the even one
RoundMs(t) ==
    LET q == t \div TicksPerMs
        r == t % TicksPerMs
    IN  IF 2 * r < TicksPerMs THEN q
        ELSE IF 2 * r > TicksPerMs THEN q + 1
        ELSE IF q % 2 = 0 THEN q ELSE q + 1

Digit(d) == <<"0", "1", "2", "3", "4", "5", "6", "7", "8", "9">>[d + 1]

RECURSIVE Str(_)
\* str(k) for k >= 0: the decimal digits
Str(k) == IF k < 10 THEN <<Digit(k)>> ELSE Str(k \div 10) \o <<Digit(k % 10)>>

RECURSIVE ZeroFill(_, _)
ZeroFill(s, width) == IF Len(s) >= width THEN s ELSE ZeroFill(<<"0">> \o s, width)

\* f"{k:0w}": zero-padded to at least w digits, longer when k needs more
Pad(k, width) == ZeroFill(Str(k), width)

\* f"segment_{k:03}.mp3"
Filename(k) ==
    <<"s", "e", "g", "m", "e", "n", "t", "_">> \o Pad(k, 3) \o <<".", "m", "p", "3">>

\* f"segments/{filename}"
ClipPath(filename) ==
    <<"s", "e", "g", "m", "e", "n", "t", "s", "/">> \o filename

\* start_ms and end_ms of a Sentence
StartMs(sent) == Max(IntMs(sent.start_time), 0)
EndMs(sent) == Max(IntMs(sent.end_time), StartMs(sent) + 1)

\* the clip audio[start_ms:end_ms] exported under its file name
Clip(k, sent) ==
    [name |-> Filename(k), start_ms |-> StartMs(sent), end_ms |-> EndMs(sent)]

\* the record appended to results; its times are in milliseconds
ClipRecord(k, sent) ==
    [text |-> sent.text,
     start_time |-> RoundMs(sent.start_time),
     end_time |-> RoundMs(sent.end_time),
     path |-> ClipPath(Filename(k))]

LoadAudio ==
    /\ pc = "load"
    /\ pc' = "export"
    /\ UNCHANGED <<words, arrival, export_srt, gap_threshold, max_chars, i, acc, closed,
                   sentences, n, artifacts, items, manifest_writes, srt_writes>>
    /\ UNCHANGED server_vars

\* AudioSegment.from_file raises
LoadAudioFail ==
    /\ pc = "load"
    /\ pc' = "failed"
    /\ UNCHANGED <<words, arrival, export_srt, gap_threshold, max_chars, i, acc, closed,
                   sentences, n, artifacts, items, manifest_writes, srt_writes>>
    /\ UNCHANGED server_vars

\* one iteration of "for i, sent in enumerate(sentences, start=1)"
ExportClip ==
    /\ pc = "export"
    /\ n < Len(sentences)
    /\ artifacts' = Append(artifacts, Clip(n + 1, sentences[n + 1]))
    /\ items' = Append(items, ClipRecord(n + 1, sentences[n + 1]))
    /\ n' = n + 1
    /\ UNCHANGED <<pc, words, arrival, export_srt, gap_threshold, max_chars, i, acc, closed,
                   sentences, manifest_writes, srt_writes>>
    /\ UNCHANGED server_vars

\* mutant: a clip that fails is skipped and the loop goes on
ExportFailSkipped ==
    /\ pc = "export"
    /\ n < Len(sentences)
    /\ n' = n + 1
    /\ UNCHANGED <<pc, words, arrival, export_srt, gap_threshold, max_chars, i,
                   acc, closed, sentences, artifacts, items, manifest_writes,
                   srt_writes>>
    /\ UNCHANGED server_vars

\* mkdir, the slice or clip.export raises: the exception leaves export_clips
\* and main()
ExportFail ==
    /\ pc = "export"
    /\ n < Len(sentences) \/ n = 0
    /\ pc' = "failed"
    /\ UNCHANGED <<words, arrival, export_srt, gap_threshold, max_chars, i, acc, closed,
                   sentences, n, artifacts, items, manifest_writes, srt_writes>>
    /\ UNCHANGED server_vars

\* "return results", then write_json(items, out_dir)
WriteJson ==
    /\ pc = "export"
    /\ n = Len(sentences)
    /\ manifest_writes' = Append(manifest_writes, items)
    /\ pc' = "srt"
    /\ UNCHANGED <<words, arrival, export_srt, gap_threshold, max_chars, i, acc, closed,
                   sentences, n, artifacts, items, srt_writes>>
    /\ UNCHANGED server_vars

-----------------------------------------------------------------------------
(* maybe_write_srt *)

\* fmt(t) of a time of t milliseconds: HH:MM:SS,mmm.  (The source takes mmm
\* from the float fraction, int((t - int(t)) * 1000), which can come out one
\* lower than t % 1000; the model keeps the exact value.)
fmt(t) ==
    Pad(t \div 3600000, 2) \o <<":">> \o Pad((t % 3600000) \div 60000, 2) \o <<":">>
        \o Pad((t % 60000) \div 1000, 2) \o <<",">> \o Pad(t % 1000, 3)

\* mutant: enumerate(items) without start=1
CueLinesFromZero(idx, it) ==
    << Str(idx - 1),
       fmt(it.start_time) \o <<" ", "-", "-", ">", " ">> \o fmt(it.end_time),
       it.text,
       <<>> >>

\* the four lines appended for the record it with index idx
CueLines(idx, it) ==
    << Str(idx),
       fmt(it.start_time) \o <<" ", "-", "-", ">", " ">> \o fmt(it.end_time),
       it.text,
       <<>> >>

RECURSIVE SrtLines(_, _)
\* lines after the loop over enumerate(its, start=idx)
SrtLines(its, idx) ==
    IF its = <<>> THEN <<>>
    ELSE CueLines(idx, its[1]) \o SrtLines(Tail(its), idx + 1)

RECURSIVE Join(_)
\* "\n".join(lines)
Join(lines) ==
    IF lines = <<>> THEN <<>>
    ELSE IF Len(lines) = 1 THEN lines[1]
         ELSE lines[1] \o <<"\n">> \o Join(Tail(lines))

\* the content written to segments.srt
SrtContent(its) == Join(SrtLines(its, 1))

\* the file written for the list its: "if not export: return" writes none
SrtWritten(its, export) == IF export THEN <<SrtContent(its)>> ELSE <<>>

\* maybe_write_srt(items, out_dir, export=args.export_srt)
maybe_write_srt ==
    /\ pc = "srt"
    /\ \E export \in BOOLEAN :
          /\ export_srt' = export
          /\ srt_writes' = srt_writes \o SrtWritten(items, export)
    /\ pc' = "done"
    /\ UNCHANGED <<words, arrival, gap_threshold, max_chars, i, acc, closed,
                   sentences, n, artifacts, items, manifest_writes>>
    /\ UNCHANGED server_vars

Next ==
    \/ Recognize
    \/ TranscribeFail
    \/ SortStep
    \/ SegmentEmpty
    \/ SegmentStep
    \/ Flush
    \/ LoadAudio
    \/ LoadAudioFail
    \/ ExportClip
    \/ ExportFail
    \/ WriteJson
    \/ maybe_write_srt

Spec == Init /\ [][Next]_vars

-----------------------------------------------------------------------------
(* export_clips on its own: the Sentence list is the input *)

MaxClips == 2        \* longest short Sentence list of SpecExport
MaxClipTime == 4     \* latest Sentence timestamp of SpecExport, ticks

\* Sentences as words_to_sentences emits them: start_time <= end_time
ExportSentences ==
    {[text |-> <<"a">>, start_time |-> iv[1], end_time |-> iv[2]] :
        iv \in {p \in (0..MaxClipTime) \X (0..MaxClipTime) : p[1] <= p[2]}}

\* a recording of BigExport Sentences, one after the other
LongSentences ==
    [k \in 1..BigExport |-> [text |-> <<"a">>, start_time |-> k - 1, end_time |-> k]]

\* the Sentence lists handed to export_clips: in ascending start_time
ExportInputs ==
    {ss \in SeqsUpTo(ExportSentences, MaxClips) :
        \A k \in 1..(Len(ss) - 1) : ss[k].start_time <= ss[k + 1].start_time}
    \cup {LongSentences}

InitExport ==
    /\ pc = "export"
    /\ sentences \in ExportInputs
    /\ words = <<>>
    /\ arrival = "none"
    /\ export_srt = FALSE
    /\ gap_threshold = GapThreshold
    /\ max_chars = 1
    /\ i = 0
    /\ acc = <<>>
    /\ closed = <<>>
    /\ n = 0
    /\ artifacts = <<>>
    /\ items = <<>>
    /\ manifest_writes = <<>>
    /\ srt_writes = <<>>
    /\ ServerIdle

NextExport ==
    \/ ExportClip
    \/ ExportFail
    \/ WriteJson

SpecExport == InitExport /\ [][NextExport]_vars

-----------------------------------------------------------------------------
(* transcribe's sort and words_to_sentences on Words that overlap and nest *)

MaxSpanWords == 3    \* longest Word list of SpecSpan
MaxSpanTime == 2     \* latest Word timestamp of SpecSpan, ticks

SpanWords ==
    {[text |-> t, start |-> iv[1], end |-> iv[2]] :
        t \in {<<"a">>, <<".">>},
        iv \in {p \in (0..MaxSpanTime) \X (0..MaxSpanTime) : p[1] <= p[2]}}

\* the recognizer has emitted its Words; the sort is next
InitSpan ==
    /\ pc = "sort"
    /\ words \in SeqsUpTo(SpanWords, MaxSpanWords)
    /\ arrival = IF InOrder(words) THEN "in order" ELSE "out of order"
    /\ export_srt = FALSE
    /\ gap_threshold = GapThreshold
    /\ max_chars \in 1..MaxChars
    /\ i = 0
    /\ acc = <<>>
    /\ closed = <<>>
    /\ sentences = <<>>
    /\ n = 0
    /\ artifacts = <<>>
    /\ items = <<>>
    /\ manifest_writes = <<>>
    /\ srt_writes = <<>>
    /\ ServerIdle

NextSpan ==
    \/ SortStep
    \/ SegmentEmpty
    \/ SegmentStep
    \/ Flush

SpecSpan == InitSpan /\ [][NextSpan]_vars

-----------------------------------------------------------------------------
(* viewer/app.py: /upload and /status, requests running concurrently *)

pipeline_vars ==
    <<pc, words, arrival, export_srt, gap_threshold, max_chars, i, acc, closed,
      sentences, n, artifacts, items, manifest_writes, srt_writes>>

\* mutant: the session id is not unique to the request
Uuid4Reused(used) == SessionIds

\* str(uuid.uuid4()): an id no earlier call has returned
Uuid4(used) == SessionIds \ used

\* Path(app.config['UPLOAD_FOLDER']) / session_id: relative to the working
\* directory of the server
UploadDir(sid) == <<cwd, sid>>

\* Path(__file__).parent.parent / app.config['OUTPUT_FOLDER'] / session_id
OutputDir(sid) == <<"root", sid>>

\* get_status: Path(app.config['OUTPUT_FOLDER']) / session_id, relative to
\* the working directory of the server
StatusDir(sid) == <<cwd, sid>>

\* the segments /upload returns: each with the url of its session
Served(found, sid) ==
    {[audio |-> m.audio, run |-> m.run, url |-> <<"output", sid>>] : m \in found}

\* file.save(path): the file replaces one of the same name
SaveFile(files, name, audio) ==
    {f \in files : f.name # name} \cup {[name |-> name, audio |-> audio]}

\* the recording a pipeline run reads at <dir>/<name>
ReadAudio(dir, name) == (CHOOSE f \in up_disk[dir] : f.name = name).audio

\* upload_file: no file, no file name or an extension that is not allowed
UploadReject(r) ==
    /\ reqs[r].pc = "new"
    /\ reqs' = [reqs EXCEPT ![r].pc = "rejected"]
    /\ UNCHANGED <<cwd, issued, up_disk, out_disk, last_status>>
    /\ UNCHANGED pipeline_vars

\* upload_file: the session id and the two session directories
UploadBegin(r) ==
    /\ reqs[r].pc = "new"
    /\ \E a \in Audios, sid \in Uuid4(issued) :
          /\ reqs' = [reqs EXCEPT ![r].pc = "save", ![r].audio = a, ![r].sid = sid]
          /\ issued' = issued \cup {sid}
    /\ UNCHANGED <<cwd, up_disk, out_disk, last_status>>
    /\ UNCHANGED pipeline_vars

\* upload_file: the upload is saved into the session upload directory
UploadSave(r) ==
    /\ reqs[r].pc = "save"
    /\ up_disk' = [up_disk EXCEPT ![UploadDir(reqs[r].sid)] =
                       SaveFile(@, FileName, reqs[r].audio)]
    /\ reqs' = [reqs EXCEPT ![r].pc = "run"]
    /\ UNCHANGED <<cwd, issued, out_disk, last_status>>
    /\ UNCHANGED pipeline_vars

\* run_pipeline: the command line with the resolved paths; the pipeline
\* process starts
RunPipeline(r) ==
    /\ reqs[r].pc = "run"
    /\ reqs' = [reqs EXCEPT ![r].pc = "piping",
                            ![r].cmd = [audio_dir |-> UploadDir(reqs[r].sid),
                                        audio_name |-> FileName,
                                        out_dir |-> OutputDir(reqs[r].sid)]]
    /\ UNCHANGED <<cwd, issued, up_disk, out_disk, last_status>>
    /\ UNCHANGED pipeline_vars

\* the pipeline process of request r: write_json into --out_dir; the
\* manifest is that of the recording at --audio_path
PipelineWrite(r) ==
    /\ reqs[r].pc = "piping"
    /\ out_disk' = [out_disk EXCEPT ![reqs[r].cmd.out_dir] =
                        {[audio |-> ReadAudio(reqs[r].cmd.audio_dir,
                                              reqs[r].cmd.audio_name),
                          run |-> r]}]
    /\ reqs' = [reqs EXCEPT ![r].pc = "exiting"]
    /\ UNCHANGED <<cwd, issued, up_disk, last_status>>
    /\ UNCHANGED pipeline_vars

\* the pipeline process ends with a return code other than 0, before or
\* after the manifest: upload_file answers 500
PipelineFail(r) ==
    /\ reqs[r].pc \in {"piping", "exiting"}
    /\ reqs' = [reqs EXCEPT ![r].pc = "error"]
    /\ UNCHANGED <<cwd, issued, up_disk, out_disk, last_status>>
    /\ UNCHANGED pipeline_vars

\* the pipeline process ends with return code 0
PipelineExit(r) ==
    /\ reqs[r].pc = "exiting"
    /\ reqs' = [reqs EXCEPT ![r].pc = "read"]
    /\ UNCHANGED <<cwd, issued, up_disk, out_disk, last_status>>
    /\ UNCHANGED pipeline_vars

\* upload_file: segments.json of the session output directory is read back
\* and returned with the session id
UploadRespond(r) ==
    /\ reqs[r].pc = "read"
    /\ LET found == out_disk[OutputDir(reqs[r].sid)]
       IN  IF found = {}
           THEN reqs' = [reqs EXCEPT ![r].pc = "error"]
           ELSE reqs' = [reqs EXCEPT ![r].pc = "ok",
                                     ![r].response = [session_id |-> reqs[r].sid,
                                                      segments |->
                                                          Served(found, reqs[r].sid)]]
    /\ UNCHANGED <<cwd, issued, up_disk, out_disk, last_status>>
    /\ UNCHANGED pipeline_vars

\* get_status(session_id).  The answer is kept together with what was true
\* of the session when it was given: whether its /upload had answered with
\* success, and the manifest in its session output directory.
GetStatus(sid) ==
    /\ LET found == out_disk[StatusDir(sid)]
       IN  last_status' =
               [session_id |-> sid,
                status |-> IF found # {} THEN "completed" ELSE "processing",
                segments |-> found,
                uploaded |-> \E r \in Requests :
                                 reqs[r].pc = "ok" /\ reqs[r].sid = sid,
                manifest |-> out_disk[OutputDir(sid)]]
    /\ UNCHANGED <<cwd, reqs, issued, up_disk, out_disk>>
    /\ UNCHANGED pipeline_vars

\* the server is started in the project root or in another directory
InitServer ==
    /\ PipelineStart
    /\ cwd \in Bases
    /\ reqs = [r \in Requests |-> NewRequest]
    /\ issued = {}
    /\ up_disk = [d \in SessionDirs |-> {}]
    /\ out_disk = [d \in SessionDirs |-> {}]
    /\ last_status = NoStatus

NextServer ==
    \/ \E r \in Requests :
          \/ UploadReject(r)
          \/ UploadBegin(r)
          \/ UploadSave(r)
          \/ RunPipeline(r)
          \/ PipelineWrite(r)
          \/ PipelineFail(r)
          \/ PipelineExit(r)
          \/ UploadRespond(r)
    \/ \E sid \in SessionIds : GetStatus(sid)

SpecServer == InitServer /\ [][NextServer]_vars

-----------------------------------------------------------------------------
(* Properties *)

RECURSIVE Flatten(_)
Flatten(ss) == IF ss = <<>> THEN <<>> ELSE ss[1] \o Flatten(Tail(ss))

\* the call of words_to_sentences has returned
Segmented == pc \in {"load", "export", "srt", "done"}

\* an accumulator whose normalized text is empty after trimming
Blank(a) == Strip(normalize_spacing(Concat(a))) = <<>>

RECURSIVE SentencesOf(_)
\* the Sentences of the accumulators that are not blank, in order
SentencesOf(cs) ==
    IF cs = <<>> THEN <<>>
    ELSE (IF Blank(cs[1]) THEN <<>>
          ELSE <<[text |-> normalize_spacing(Concat(cs[1])),
                  start_time |-> cs[1][1].start,
                  end_time |-> cs[1][Len(cs[1])].end]>>)
         \o SentencesOf(Tail(cs))

\* C1 (partition): the accumulators closed so far, followed by the open one,
\* are exactly the Words consumed so far, in order, none dropped and none
\* twice; once words_to_sentences has returned, the closed accumulators are
\* non-empty runs whose concatenation is the whole Word list, and the
\* Sentences are those of the accumulators that are not blank, in order.
C1_Partition ==
    /\ pc = "segment" => Flatten(closed) \o acc = SubSeq(words, 1, i)
    /\ \A k \in 1..Len(closed) : closed[k] # <<>>
    /\ Segmented => /\ Flatten(closed) = words
                    /\ sentences = SentencesOf(closed)

\* a run that closed three accumulators, the middle one blank and dropped
C1_Witness ==
    /\ pc = "load"
    /\ Len(closed) = 3
    /\ Blank(closed[2])
    /\ Len(sentences) = 2

\* C2 (monotonic timing): whatever the arrival order, the Segmenter consumes
\* the Words in ascending (start, end) order, every Sentence has
\* start_time <= end_time and the start_times never decrease.
C2_MonotonicTiming ==
    /\ pc \notin {"transcribe", "sort"} => InOrder(words)
    /\ \A k \in 1..Len(sentences) :
          /\ sentences[k].start_time <= sentences[k].end_time
          /\ k < Len(sentences) =>
                sentences[k].start_time <= sentences[k + 1].start_time

\* Words that arrived out of order were segmented into several Sentences
C2_Witness ==
    /\ pc = "load"
    /\ arrival = "out of order"
    /\ Len(sentences) >= 2
    /\ sentences[1].start_time < sentences[2].start_time

\* the characters of a clip path, in code point order
CodePointOrder ==
    <<".", "/", "0", "1", "2", "3", "4", "5", "6", "7", "8", "9", "_",
      "a", "e", "g", "m", "n", "p", "s", "t">>

Rank(c) == CHOOSE k \in 1..Len(CodePointOrder) : CodePointOrder[k] = c

RECURSIVE LexLess(_, _)
\* a < b as Python compares strings
LexLess(a, b) ==
    IF a = <<>> THEN b # <<>>
    ELSE IF b = <<>> THEN FALSE
    ELSE IF a[1] = b[1] THEN LexLess(Tail(a), Tail(b))
    ELSE Rank(a[1]) < Rank(b[1])

\* C3 (manifest/artifact correspondence): after a successful export_clips the
\* manifest has one record per Sentence, record k carries Sentence k's text
\* and the path of artifact k, every artifact file name has the same width,
\* and the names ascend lexicographically with the ordinal.
C3_ManifestCorrespondence ==
    manifest_writes # <<>> =>
        /\ Len(items) = Len(sentences)
        /\ Len(artifacts) = Len(sentences)
        /\ \A k \in 1..Len(artifacts) :
              /\ items[k].text = sentences[k].text
              /\ items[k].path = ClipPath(artifacts[k].name)
              /\ Len(artifacts[k].name) = Len(artifacts[1].name)
              /\ k < Len(artifacts) =>
                    LexLess(artifacts[k].name, artifacts[k + 1].name)

\* C4 (fatal export): segments.json is written at most once, and only when
\* the artifacts of all Sentences exist, written in ordinal order; a run that
\* failed has written no manifest.
C4_FatalExport ==
    /\ Len(manifest_writes) <= 1
    /\ Len(artifacts) = n
    /\ \A k \in 1..Len(artifacts) : artifacts[k].name = Filename(k)
    /\ manifest_writes # <<>> =>
          /\ Len(artifacts) = Len(sentences)
          /\ Len(manifest_writes[1]) = Len(sentences)
    /\ pc = "failed" => manifest_writes = <<>>

\* the export failed after the first clip and before the last
C4_Witness ==
    /\ pc = "failed"
    /\ n >= 1
    /\ n < Len(sentences)
    /\ Len(artifacts) = n

EndsTerminal(s) == s # <<>> /\ s[Len(s)] \in SENTENCE_END_CHARS

\* C5 (punctuation priority): after an iteration no prefix of the open
\* accumulator has text ending in a terminal character (the accumulator was
\* closed at that Word), and no proper prefix of a closed accumulator has.
C5_PunctuationPriority ==
    /\ \A k \in 1..Len(acc) : ~EndsTerminal(Concat(SubSeq(acc, 1, k)))
    /\ \A c \in 1..Len(closed) :
          \A k \in 1..(Len(closed[c]) - 1) :
              ~EndsTerminal(Concat(SubSeq(closed[c], 1, k)))

\* the first Word ends in punctuation and was closed on its own although the
\* next Word follows without a gap and the text is shorter than max_chars
C5_Witness ==
    /\ pc = "segment"
    /\ i >= 2
    /\ Len(closed[1]) = 1
    /\ EndsTerminal(Concat(closed[1]))
    /\ Len(Concat(closed[1])) < max_chars
    /\ words[2].start - words[1].end < gap_threshold

\* the positions of the Word list at which an accumulator was closed
Boundaries == {Len(Flatten(SubSeq(closed, 1, k))) : k \in 1..Len(closed)}

\* C6 (gap rule): a consumed Word followed by a gap of at least gap_threshold
\* is the last Word of a closed accumulator; and the loop closes an
\* accumulator at a Word only for the punctuation, for the gap from that Word
\* to the next one, or for the length, so a last Word with none of these is
\* closed by the final flush only.
C6_GapRule ==
    /\ \A j \in 1..(Len(words) - 1) :
          (pc \notin {"transcribe", "sort"} /\ j <= i
              /\ words[j + 1].start - words[j].end >= gap_threshold)
          => j \in Boundaries
    /\ pc = "segment" =>
          \A k \in 1..Len(closed) :
              LET j == Len(Flatten(SubSeq(closed, 1, k)))
                  text == Concat(closed[k])
              IN  \/ EndsTerminal(text)
                  \/ Len(text) >= max_chars
                  \/ j < Len(words) /\ words[j + 1].start - words[j].end >= gap_threshold
    /\ (Segmented /\ words # <<>> /\ ~EndsTerminal(Concat(closed[Len(closed)]))
            /\ Len(Concat(closed[Len(closed)])) < max_chars)
       => acc = closed[Len(closed)]

\* two Words were split by the gap alone, and the last Word waited for the flush
C6_Witness ==
    /\ pc = "load"
    /\ Len(words) = 3
    /\ Len(closed) = 2
    /\ Len(closed[1]) = 2
    /\ ~EndsTerminal(Concat(closed[1]))
    /\ Len(Concat(closed[1])) < max_chars
    /\ words[3].start - words[2].end >= gap_threshold
    /\ acc = closed[2]

\* the Word list is a run of one-character Words without terminal
\* punctuation and without a gap of gap_threshold or more
OneCharRun ==
    \A k \in 1..Len(words) :
        /\ Len(words[k].text) = 1
        /\ words[k].text[1] \notin SENTENCE_END_CHARS
        /\ k < Len(words) => words[k + 1].start - words[k].end < gap_threshold

\* C7 as stated (length guard): a run of more than max_chars one-character
\* Words gives at least two Sentences, the first with len(text) >= max_chars.
C7_LengthGuardAnyRun ==
    (Segmented /\ OneCharRun /\ Len(words) > max_chars)
    => /\ Len(sentences) >= 2
       /\ Len(sentences[1].text) >= max_chars

\* C7 as amended (length guard): a run of more than max_chars one-character
\* Words none of which is whitespace gives at least two Sentences, the first
\* with len(text) >= max_chars.
C7_LengthGuard ==
    (Segmented /\ OneCharRun /\ Len(words) > max_chars
        /\ \A k \in 1..Len(words) : words[k].text[1] \notin Whitespace)
    => /\ Len(sentences) >= 2
       /\ Len(sentences[1].text) >= max_chars

\* three letters with max_chars = 2: closed by the length guard after two
C7_Witness ==
    /\ pc = "load"
    /\ OneCharRun
    /\ \A k \in 1..Len(words) : words[k].text[1] \notin Whitespace
    /\ max_chars = 2
    /\ Len(words) = 3
    /\ Len(sentences) = 2
    /\ Len(sentences[1].text) = 2

\* C8 (clip range conversion): every clip is cut over [start_ms, end_ms) with
\* start_ms = max(round(start_time*1000), 0) and
\* end_ms = max(round(end_time*1000), start_ms + 1), so 0 <= start_ms < end_ms.
C8_ClipRangeRounded ==
    \A k \in 1..Len(artifacts) :
        LET start_ms == Max(RoundMs(sentences[k].start_time), 0)
            end_ms == Max(RoundMs(sentences[k].end_time), start_ms + 1)
        IN  /\ artifacts[k].start_ms = start_ms
            /\ artifacts[k].end_ms = end_ms
            /\ 0 <= artifacts[k].start_ms
            /\ artifacts[k].start_ms < artifacts[k].end_ms

\* C9 (emit rule): every Sentence has a text that is not empty after
\* trimming; an empty Word list gives an empty Sentence list; a closure
\* resets the accumulator, so each consumed Word is in exactly one
\* accumulator; and the Sentences are as many as the closed accumulators
\* that are not blank.
C9_EmitRule ==
    /\ \A k \in 1..Len(sentences) : Strip(sentences[k].text) # <<>>
    /\ (Segmented /\ words = <<>>) => sentences = <<>>
    /\ pc = "segment" => Len(Flatten(closed)) + Len(acc) = i
    /\ Len(sentences) = Cardinality({k \in 1..Len(closed) : ~Blank(closed[k])})

\* a blank accumulator was dropped and the Words after it made a Sentence
C9_Witness ==
    /\ pc = "load"
    /\ Len(closed) = 2
    /\ Blank(closed[1])
    /\ ~Blank(closed[2])
    /\ Len(sentences) = 1

RECURSIVE Split(_)
\* s.split("\n")
Split(s) ==
    IF \A k \in 1..Len(s) : s[k] # "\n" THEN <<s>>
    ELSE LET k == CHOOSE j \in 1..Len(s) :
                     s[j] = "\n" /\ \A h \in 1..(j - 1) : s[h] # "\n"
         IN  <<SubSeq(s, 1, k - 1)>> \o Split(SubSeq(s, k + 1, Len(s)))

\* the lines of a text file: each ended by "\n", the last possibly not
FileLines(content) ==
    LET p == Split(content)
    IN  IF p[Len(p)] = <<>> THEN SubSeq(p, 1, Len(p) - 1) ELSE p

\* maybe_write_srt left the manifest list and segments.json as they were
ManifestKept ==
    /\ items = [k \in 1..Len(sentences) |-> ClipRecord(k, sentences[k])]
    /\ manifest_writes = <<items>>

\* C10 as stated (subtitle export): with export requested the file holds one
\* cue per record, numbered 1..n in manifest order, each followed by a blank
\* line; the manifest is unchanged; without export no file is written.
C10_EachCueThenBlank ==
    /\ pc # "done" => srt_writes = <<>>
    /\ pc = "done" =>
          /\ ManifestKept
          /\ ~export_srt => srt_writes = <<>>
          /\ export_srt =>
                /\ Len(srt_writes) = 1
                /\ LET lines == FileLines(srt_writes[1])
                   IN  \A k \in 1..Len(items) :
                           /\ Len(lines) >= 4 * k
                           /\ lines[4 * k - 3] = Str(k)
                           /\ lines[4 * k - 1] = items[k].text
                           /\ lines[4 * k] = <<>>

\* C10 as amended (subtitle export): with export requested the file holds one
\* cue per record, numbered 1..n in manifest order, with a blank line between
\* consecutive cues and none after the last; the manifest is unchanged;
\* without export no file is written.
C10_SubtitleFrame ==
    /\ pc # "done" => srt_writes = <<>>
    /\ pc = "done" =>
          /\ ManifestKept
          /\ ~export_srt => srt_writes = <<>>
          /\ export_srt =>
                /\ Len(srt_writes) = 1
                /\ LET lines == FileLines(srt_writes[1])
                   IN  /\ Len(lines) = IF items = <<>> THEN 0 ELSE 4 * Len(items) - 1
                       /\ \A k \in 1..Len(items) :
                               /\ lines[4 * k - 3] = Str(k)
                               /\ lines[4 * k - 1] = items[k].text
                               /\ k < Len(items) => lines[4 * k] = <<>>

\* a subtitle file of two cues was written
C10_Witness ==
    /\ pc = "done"
    /\ export_srt
    /\ Len(items) = 2
    /\ Len(srt_writes) = 1

\* the requests that have their session
InSession == {r \in Requests : reqs[r].sid # 0}

\* C11 (isolation): requests have pairwise different session upload and
\* output directories; every pipeline run is started on the request's own
\* upload and output directory and reads the request's own recording; and
\* the manifest a request returns was written by its own pipeline run from
\* its own recording.
C11_Isolation ==
    /\ \A r1, r2 \in InSession :
          r1 # r2 => /\ UploadDir(reqs[r1].sid) # UploadDir(reqs[r2].sid)
                     /\ OutputDir(reqs[r1].sid) # OutputDir(reqs[r2].sid)
    /\ \A r \in Requests :
          reqs[r].pc \in {"piping", "exiting", "read", "ok"} =>
              /\ reqs[r].cmd.audio_dir = UploadDir(reqs[r].sid)
              /\ reqs[r].cmd.out_dir = OutputDir(reqs[r].sid)
              /\ ReadAudio(reqs[r].cmd.audio_dir, reqs[r].cmd.audio_name)
                     = reqs[r].audio
    /\ \A r \in Requests :
          reqs[r].pc = "ok" =>
              /\ reqs[r].response.session_id = reqs[r].sid
              /\ reqs[r].response.segments =
                     {[audio |-> reqs[r].audio, run |-> r,
                       url |-> <<"output", reqs[r].sid>>]}

\* one request has answered with its manifest while the pipeline of another,
\* with another recording, is still running
C11_Witness ==
    \E r1, r2 \in Requests :
        /\ reqs[r1].pc = "ok"
        /\ reqs[r2].pc = "exiting"
        /\ reqs[r1].audio # reqs[r2].audio

NotBlank(a) == ~Blank(a)

\* the closed accumulators that were emitted: Emitted[k] holds the
\* constituent Words of sentences[k]
Emitted == SelectSeq(closed, NotBlank)

\* C12 as stated (span containment): the interval [start_time, end_time] of
\* every Sentence contains the [start, end] interval of each of its Words.
C12_SpanContainsWords ==
    /\ Len(sentences) = Len(Emitted)
    /\ \A k \in 1..Len(sentences) :
          \A j \in 1..Len(Emitted[k]) :
              /\ sentences[k].start_time <= Emitted[k][j].start
              /\ Emitted[k][j].end <= sentences[k].end_time

\* the ends of the Words of an accumulator never decrease
EndsAscend(a) == \A j \in 1..(Len(a) - 1) : a[j].end <= a[j + 1].end

\* C12 as amended (span): start_time is the least start of the Sentence's
\* Words and end_time is the end of its last Word; the interval contains
\* every Word of the Sentence when the ends of its Words never decrease.
C12_Span ==
    /\ Len(sentences) = Len(Emitted)
    /\ \A k \in 1..Len(sentences) :
          LET a == Emitted[k]
          IN  /\ \A j \in 1..Len(a) : sentences[k].start_time <= a[j].start
              /\ sentences[k].start_time = a[1].start
              /\ sentences[k].end_time = a[Len(a)].end
              /\ EndsAscend(a) =>
                    \A j \in 1..Len(a) : a[j].end <= sentences[k].end_time

\* a Sentence of two Words that overlap, the second ending last
C12_Witness ==
    /\ pc = "load"
    /\ arrival = "out of order"
    /\ Len(sentences) >= 1
    /\ Len(Emitted[1]) = 2
    /\ Emitted[1][1].start < Emitted[1][2].start
    /\ Emitted[1][2].start < Emitted[1][1].end
    /\ Emitted[1][1].end <= Emitted[1][2].end
    /\ sentences[1].end_time = Emitted[1][2].end

\* C13 (status consistency): a GET /status/<session_id> given after the
\* /upload of that session answered with success says 'completed' with the
\* manifest of the session; and it says 'processing' only when no manifest
\* has been written for the session.
C13_StatusConsistency ==
    last_status.status # "none" =>
        /\ last_status.uploaded =>
              /\ last_status.status = "completed"
              /\ last_status.segments = last_status.manifest
        /\ last_status.status = "processing" => last_status.manifest = {}

====
